---- MODULE Spec2Model ----
(***************************************************************************)
(* Model of src/utils/quantum.ts: the quantum-metric generator             *)
(* (buildQuantumState and its helpers) and the anomaly detector            *)
(* (detectAnomaly).                                                        *)
(*                                                                         *)
(* Numbers.  The source works on IEEE doubles; the model works on          *)
(* fixed-point integers:                                                   *)
(*   - entropy, sValue, deviationScore, hotspot: millionths (1.0 = 10^6)   *)
(*   - a Math.random() draw: thousandths, 0..999 (the draw is in [0,1))    *)
(*   - sensor fields (emf, temperature, motion, audioLevel, pressure):     *)
(*     hundredths (2.8 uT = 280, -22 dB = -2200)                           *)
(***************************************************************************)
EXTENDS Integers, Sequences, FiniteSets, TLC

VARIABLES
    quantum,    \* the caller-held QuantumState (prev of the next call)
    ticks,      \* number of buildQuantumState calls made so far
    current,    \* detectAnomaly's argument `current`
    prev,       \* detectAnomaly's argument `prev` (NoReading when undefined)
    anomaly,    \* detectAnomaly's return value (Null before the call too)
    detected,   \* TRUE once detectAnomaly has returned
    devScore,   \* [score |-> calcDeviationScore's return value], NoScore before the call
    hashInput,  \* simpleHash's argument s, as UTF-16 code units
    hashI,      \* simpleHash's loop index i
    hashAcc,    \* simpleHash's accumulator h
    hashOut,    \* simpleHash's return value (empty before it returns)
    runCurrent, \* the current readings of two detectAnomaly calls
    runAnomaly, \* the id, timestamp, description and hash each call returned
    prevBits,   \* the bits array of buildQuantumState's argument prev, after the call
    eventPhase, \* the module-level simulator variable eventPhase
    eventTimer, \* the module-level simulator variable eventTimer
    simRun,     \* the simulateSensors calls so far: their number, the last
                \* elapsed argument, the elapsed time summed since the last
                \* event start, the event starts, a negative argument seen
    messages,   \* EchoScreen: the chat messages (role and content of each)
    input,      \* EchoScreen: the text of the chat input
    thinking,   \* EchoScreen: a send is awaiting its response
    groqKey,    \* EchoScreen: the groqKey state
    showKeyInput, \* EchoScreen: the key panel is shown
    keyDraft,   \* EchoScreen: the text of the key field
    localKey,   \* localStorage's item "groq_api_key"
    payload,    \* the messages of the request the last send built
    command,    \* the last command handed to window.tasklet.runCommand
    sends,      \* number of sends that passed the guard
    inFlight,   \* number of runCommand calls that have not settled
    sbSweeping, \* App: the Spirit Box is sweeping
    sbFreq,     \* App: the Spirit Box frequency, in tenths of a MHz
    freqRef,    \* SpiritBoxScreen: freqRef.current, in tenths of a MHz
    sweepRate,  \* SpiritBoxScreen: the sweepRate state
    sweepRateRef, \* SpiritBoxScreen: sweepRateRef.current
    contactActive, \* SpiritBoxScreen: a contact word is shown
    contactCount,  \* App: number of entries of sbContacts
    openContexts,  \* useSpiritBoxAudio: AudioContexts created and not closed
    stage,      \* App: the stage state
    screen,     \* App: the screen state
    scanActive, \* App: the scanActive state
    loadingDone, \* LoadingScreen: its `done` timeout (none, armed, fired)
    intervals,  \* useSensorStream: number of tick intervals registered
    readings,   \* useSensorStream: the readings state
    anomalies,  \* useSensorStream: the anomalies state
    qrngBaseline, \* useSensorStream: qrngBaseline.current, in millionths
    streamTicks, \* number of tick callbacks run
    entropyBuf, \* generateQuantumEntropy: buf after crypto.getRandomValues
    entropyOut  \* generateQuantumEntropy: its return value

\* The variables by component
quantumVars == <<quantum, ticks, prevBits>>
detectVars == <<current, prev, anomaly, detected>>
deviationVars == <<devScore>>
hashVars == <<hashInput, hashI, hashAcc, hashOut>>
digestVars == <<runCurrent, runAnomaly>>
eventVars == <<eventPhase, eventTimer, simRun>>
spiritVars == <<sbSweeping, sbFreq, freqRef, sweepRate, sweepRateRef,
                contactActive, contactCount, openContexts>>
appVars == <<stage, screen, scanActive, loadingDone, intervals, readings, anomalies,
             qrngBaseline, streamTicks, entropyBuf, entropyOut>>
echoVars == <<messages, input, thinking, groqKey, showKeyInput, keyDraft,
              localKey, payload, command, sends, inFlight>>

vars == <<quantum, ticks, current, prev, anomaly, detected, devScore,
          hashInput, hashI, hashAcc, hashOut, runCurrent, runAnomaly,
          prevBits, eventPhase, eventTimer, simRun,
          messages, input, thinking, groqKey, showKeyInput, keyDraft,
          localKey, payload, command, sends, inFlight,
          sbSweeping, sbFreq, freqRef, sweepRate, sweepRateRef,
          contactActive, contactCount, openContexts,
          stage, screen, scanActive, loadingDone, intervals, readings, anomalies,
          qrngBaseline, streamTicks, entropyBuf, entropyOut>>

(***************************************************************************)
(* Bounds of the model                                                     *)
(***************************************************************************)
\* buildQuantumState calls explored from INITIAL_QUANTUM
MaxTicks == 2
\* Exchanges (a user message and its answer) already in the chat at the start
MaxPriorExchanges == 10
\* Sends explored after the start
MaxSends == 2
\* buildQuantumState calls explored from a window of arbitrary length
MaxAnyTicks == 1
\* Longest string over HashAlphabet handed to simpleHash
MaxHashLen == 4

(***************************************************************************)
(* Program constants                                                       *)
(***************************************************************************)
WindowLen == 64
FreshCount == 4
SliceFrom == 4

Min(a, b) == IF a < b THEN a ELSE b
Max(a, b) == IF a > b THEN a ELSE b

\* Outcomes of Math.random() the model draws, in thousandths: the least value
\* and the greatest value below 1.
RandVals == {0, 999}

\* Deviation scores handed to buildQuantumState, in millionths: the ends of
\* [0,1] and both sides of the 0.55 threshold of calcSValue.
DevVals == {0, 550000, 560000, 1000000}

\* The value a numeric expression takes when it is NaN (0/0 and what follows).
NaN == [nan |-> TRUE]

(***************************************************************************)
(* generateQRNGBits / updateQRNGStream                                     *)
(***************************************************************************)
\* One element of generateQRNGBits: Math.random() > 0.5 ? 1 : 0
QRNGBit(r) == IF r > 500 THEN 1 ELSE 0

\* generateQRNGBits(count), given the `count` draws it makes
generateQRNGBits(count, draws) == [i \in 1..count |-> QRNGBit(draws[i])]

\* current.slice(4): the elements from index 4 (0-based) on; empty when the
\* array has 4 elements or fewer
Slice(s, from) == IF Len(s) <= from THEN <<>> ELSE SubSeq(s, from + 1, Len(s))

SliceReceiver_Splice(s, from) == Slice(s, from)

\* The array current after current.slice(4) has been evaluated: slice copies
\* and leaves its receiver as it was
SliceReceiver(s, from) == s

updateQRNGStream_Slice3(cur, draws) ==
    Slice(cur, SliceFrom - 1) \o generateQRNGBits(FreshCount, draws)

updateQRNGStream_Prepend(cur, draws) ==
    generateQRNGBits(FreshCount, draws) \o Slice(cur, SliceFrom)

updateQRNGStream(cur, draws) ==
    Slice(cur, SliceFrom) \o generateQRNGBits(FreshCount, draws)

(***************************************************************************)
(* calcEntropy                                                             *)
(***************************************************************************)
\* Math.log2(m) for m = 1..72, in millionths, rounded to nearest
Log2Micro ==
  << 0, 1000000, 1584963, 2000000, 2321928, 2584963, 2807355, 3000000,
     3169925, 3321928, 3459432, 3584963, 3700440, 3807355, 3906891, 4000000,
     4087463, 4169925, 4247928, 4321928, 4392317, 4459432, 4523562, 4584963,
     4643856, 4700440, 4754888, 4807355, 4857981, 4906891, 4954196, 5000000,
     5044394, 5087463, 5129283, 5169925, 5209453, 5247928, 5285402, 5321928,
     5357552, 5392317, 5426265, 5459432, 5491853, 5523562, 5554589, 5584963,
     5614710, 5643856, 5672425, 5700440, 5727920, 5754888, 5781360, 5807355,
     5832890, 5857981, 5882643, 5906891, 5930737, 5954196, 5977280, 6000000,
     6022368, 6044394, 6066089, 6087463, 6108524, 6129283, 6149747, 6169925 >>

\* bits.filter(b => b === 1).length
Ones(bits) == Cardinality({i \in DOMAIN bits : bits[i] = 1})

\* h = -(p1*log2(p1) + p0*log2(p0)) with p1 = ones/n, p0 = 1 - p1, which is
\* log2(n) - (ones*log2(ones) + (n-ones)*log2(n-ones)) / n; in millionths
ShannonH(ones, n) ==
    (n * Log2Micro[n] - ones * Log2Micro[ones]
       - (n - ones) * Log2Micro[n - ones]) \div n

\* The jitter (Math.random() - 0.5) * 0.015, in millionths
EntropyJitter(r) == (r - 500) * 15

calcEntropy_NoClamp(bits, r) ==
    LET n == Len(bits)
        ones == Ones(bits)
    IN  IF n = 0 THEN NaN
        ELSE IF ones = 0 \/ ones = n THEN 0
        ELSE ShannonH(ones, n) + EntropyJitter(r)

calcEntropy_JitterAlways(bits, r) ==
    LET n == Len(bits)
        ones == Ones(bits)
    IN  IF n = 0 THEN NaN
        ELSE IF ones = 0 \/ ones = n THEN Min(1000000, Max(0, EntropyJitter(r)))
        ELSE Min(1000000, ShannonH(ones, n) + EntropyJitter(r))

calcEntropy(bits, r) ==
    LET n == Len(bits)
        ones == Ones(bits)
    IN  IF n = 0 THEN NaN                       \* p1 = 0/0
        ELSE IF ones = 0 \/ ones = n THEN 0     \* p1 === 0 || p1 === 1
        ELSE Min(1000000, ShannonH(ones, n) + EntropyJitter(r))

(***************************************************************************)
(* calcSValue                                                              *)
(***************************************************************************)
\* base = 1.85 + Math.random() * 0.25
SBase(r) == 1850000 + r * 250

calcSValue_NoClamp(deviationScore, rBase, rExtra) ==
    IF deviationScore > 550000
    THEN SBase(rBase) + (deviationScore * 9) \div 10 + rExtra * 80
    ELSE SBase(rBase)

calcSValue_Ge(deviationScore, rBase, rExtra) ==
    IF deviationScore >= 550000
    THEN Min(2828000, SBase(rBase) + (deviationScore * 9) \div 10 + rExtra * 80)
    ELSE SBase(rBase)

calcSValue(deviationScore, rBase, rExtra) ==
    IF deviationScore > 550000
    THEN Min(2828000, SBase(rBase) + (deviationScore * 9) \div 10 + rExtra * 80)
    ELSE SBase(rBase)

(***************************************************************************)
(* calcDeviationScore                                                      *)
(***************************************************************************)
\* emfNorm = Math.min(1, Math.max(0, (emf - 0.25) / 4.5)); emf in hundredths,
\* the result in millionths
EmfNorm(emf) == Min(1000000, Max(0, ((emf - 25) * 1000000) \div 450))

\* tempNorm = Math.min(1, Math.max(0, (21 - temperature) / 12.0))
TempNorm(temperature) ==
    Min(1000000, Max(0, ((2100 - temperature) * 1000000) \div 1200))

\* motNorm = Math.min(1, motion * 1.4)
MotNorm(motion) == Min(1000000, motion * 14000)

\* raw = emfNorm * 0.40 + tempNorm * 0.35 + motNorm * 0.25
RawDeviation(emf, temperature, motion) ==
    (EmfNorm(emf) * 40 + TempNorm(temperature) * 35 + MotNorm(motion) * 25) \div 100

\* The jitter (Math.random() - 0.5) * 0.04, in millionths
DeviationJitter(r) == (r - 500) * 40

calcDeviationScore(emf, temperature, motion, r) ==
    Min(1000000, RawDeviation(emf, temperature, motion) + DeviationJitter(r))

\* calcDeviationScore has not returned yet
NoScore == [pending |-> TRUE]

(***************************************************************************)
(* buildQuantumState / INITIAL_QUANTUM                                     *)
(***************************************************************************)
\* The draws of one buildQuantumState call, in the order the code makes them
DrawSets ==
    { [bits |-> b, entropy |-> j[1], base |-> j[2], extra |-> j[3], sps |-> j[4]] :
        b \in [1..FreshCount -> RandVals],
        j \in { <<0, 0, 0, 0>>, <<999, 999, 999, 999>>, <<999, 0, 999, 0>> } }

\* 1_048_576 + Math.floor((Math.random() - 0.5) * 65536)
SamplesPerSecond(r) == 1048576 + ((r - 500) * 65536) \div 1000

buildQuantumState(prevState, deviation, d) ==
    LET bits == updateQRNGStream(prevState.bits, d.bits)
    IN  [ entropy          |-> calcEntropy(bits, d.entropy),
          sValue           |-> calcSValue(deviation, d.base, d.extra),
          bits             |-> bits,
          deviationScore   |-> deviation,
          samplesPerSecond |-> SamplesPerSecond(d.sps) ]

\* Windows of n bits: all 0, all 1, alternating 0 1 0 1 ...
Window(n, kind) ==
    [i \in 1..n |-> CASE kind = "zeros" -> 0
                      [] kind = "ones"  -> 1
                      [] OTHER          -> (i + 1) % 2]

WindowKinds == {"zeros", "ones", "alternating"}

\* INITIAL_QUANTUM, given the window generateQRNGBits(64) returned
INITIAL_QUANTUM(bits) ==
    [ entropy          |-> 943000,
      sValue           |-> 1970000,
      bits             |-> bits,
      deviationScore   |-> 40000,
      samplesPerSecond |-> 1048576 ]

(***************************************************************************)
(* Readings                                                                *)
(***************************************************************************)
\* `prev` when the caller passes undefined
NoReading == [absent |-> TRUE]
\* detectAnomaly's null
Null == [type |-> "null"]

INITIAL_SENSORS ==
    [ emf |-> 19, temperature |-> 2140, motion |-> 1, pressure |-> 101320,
      audioLevel |-> -5300, timestamp |-> 0 ]

\* Field values of the previous reading: below and on the "previous" thresholds
PrevReadings ==
    { [ emf |-> e, temperature |-> t, motion |-> m, pressure |-> 101320,
        audioLevel |-> a, timestamp |-> 500 ] :
        e \in {50, 100}, t \in {2100}, m \in {1, 8}, a \in {-5000, -4200} }

\* The current reading: each field quiet, on each threshold, above it
CurReadings ==
    { [ emf |-> e, temperature |-> t, motion |-> m, pressure |-> 101320,
        audioLevel |-> a, timestamp |-> 1000 ] :
        e \in {280, 300, 600, 700},
        t \in {2100, 1920, 1919, 1750, 1748, 1740, 1500},
        m \in {1, 55, 60, 80, 90},
        a \in {-5000, -2200, -2000, -1200, -1000} }

\* Values of Date.now() during a call
ClockVals == {1000, 1001}

\* The draws of one detectAnomaly call that reach the returned anomaly
DetectDraws ==
    { [entropy |-> a, x |-> b, y |-> c] : a \in RandVals, b \in RandVals, c \in RandVals }

(***************************************************************************)
(* simpleHash                                                              *)
(*                                                                         *)
(* A number h is held as <<hi, lo>> with h = hi * 65536 + lo and lo in     *)
(* 0..65535; a signed 32-bit integer has hi in -32768..32767.              *)
(***************************************************************************)
\* ToInt32: the value wrapped to a signed 32-bit integer
ToInt32(h) == << ((h[1] + 32768) % 65536) - 32768, h[2] >>

\* h << 5: ToInt32 of the operand, times 32, wrapped to 32 bits
ShiftLeft5(h) ==
    LET w == ToInt32(h)
        lo == w[2] * 32
    IN  ToInt32(<< w[1] * 32 + lo \div 65536, lo % 65536 >>)

\* (a + b) + c for numbers a, b and a code unit c: double arithmetic, exact
\* at this size
Add3(a, b, c) ==
    LET lo == a[2] + b[2] + c
    IN  << a[1] + b[1] + lo \div 65536, lo % 65536 >>

HashStep_NoWrap(h, c) == Add3(ShiftLeft5(h), h, c)

\* The loop body: h = ((h << 5) + h) + s.charCodeAt(i); h = h & h
HashStep(h, c) == ToInt32(Add3(ShiftLeft5(h), h, c))

\* let h = 5381
HashSeed == << 0, 5381 >>

\* The accumulator after the iterations i = from..to of the loop, entered
\* with accumulator h.  The iterations are taken first half then second half,
\* and the second half starts only once the first has produced its value.
RECURSIVE HashLoop(_, _, _, _)
HashLoop(s, from, to, h) ==
    IF from > to THEN h
    ELSE IF from = to THEN HashStep(h, s[from])
    ELSE LET mid == (from + to) \div 2
             half == HashLoop(s, from, mid, h)
         IN  IF half[2] >= 0 THEN HashLoop(s, mid + 1, to, half) ELSE half

\* Math.abs(h)
Abs32(h) ==
    IF h[1] >= 0 THEN h
    ELSE IF h[2] = 0 THEN << -h[1], 0 >>
    ELSE << -h[1] - 1, 65536 - h[2] >>

\* n.toString(16) for an integer n >= 0: no leading zeros
RECURSIVE HexOf(_)
HexOf(n) ==
    LET HexChars == << "0", "1", "2", "3", "4", "5", "6", "7",
                       "8", "9", "a", "b", "c", "d", "e", "f" >>
    IN  IF n < 16 THEN << HexChars[n + 1] >>
        ELSE HexOf(n \div 16) \o << HexChars[(n % 16) + 1] >>

\* s.padStart(n, ch): s itself when it has n characters or more
PadStart(s, n, ch) ==
    IF Len(s) >= n THEN s ELSE [i \in 1..(n - Len(s)) |-> ch] \o s

\* h.toString(16) for h >= 0: the digits of hi, then the four digits of lo
ToString16(h) ==
    IF h[1] = 0 THEN HexOf(h[2])
    ELSE HexOf(h[1]) \o PadStart(HexOf(h[2]), 4, "0")

\* s.toUpperCase() on hexadecimal digits
ToUpperCase(s) ==
    [i \in 1..Len(s) |->
        CASE s[i] = "a" -> "A" [] s[i] = "b" -> "B" [] s[i] = "c" -> "C"
          [] s[i] = "d" -> "D" [] s[i] = "e" -> "E" [] s[i] = "f" -> "F"
          [] OTHER -> s[i]]

\* return Math.abs(h).toString(16).toUpperCase().padStart(8, '0')
HashRender(h) == PadStart(ToUpperCase(ToString16(Abs32(h))), 8, "0")

simpleHash(s) == HashRender(HashLoop(s, 1, Len(s), HashSeed))

(***************************************************************************)
(* detectAnomaly                                                           *)
(***************************************************************************)
\* +(x.toFixed(1)) for x in hundredths: x rounded to the nearest tenth, a tie
\* going to the larger magnitude; the result is again in hundredths
ToFixed1(x) ==
    IF x >= 0 THEN ((x + 5) \div 10) * 10 ELSE -(((-x + 5) \div 10) * 10)

EmfSpikeFires_Ge(cur, prv) == cur.emf >= 280 /\ prv.emf < 100

EmfSpikeFires(cur, prv) == cur.emf > 280 /\ prv.emf < 100

TemperatureDropFires(cur, prv) == cur.temperature < prv.temperature - 180

MotionSurgeFires(cur, prv) == cur.motion > 55 /\ prv.motion < 8

EvpPatternFires(cur, prv) == cur.audioLevel > -2200 /\ prv.audioLevel < -4200

EmfSeverity_Ge(cur) == IF cur.emf >= 600 THEN "high" ELSE "medium"

EmfSeverity(cur) == IF cur.emf > 600 THEN "high" ELSE "medium"

\* const drop = (prev.temperature - current.temperature).toFixed(1)
Drop(cur, prv) == ToFixed1(prv.temperature - cur.temperature)

\* severity: +drop > 3.5 ? 'high' : 'medium'
TemperatureSeverity(cur, prv) == IF Drop(cur, prv) > 350 THEN "high" ELSE "medium"

MotionSeverity(cur) == IF cur.motion > 80 THEN "high" ELSE "medium"

EvpSeverity(cur) == IF cur.audioLevel > -1200 THEN "high" ELSE "medium"

\* The candidates array after the four tests, in push order
Candidates(cur, prv) ==
    (IF EmfSpikeFires(cur, prv)
        THEN << [type |-> "emf_spike", severity |-> EmfSeverity(cur)] >>
        ELSE << >>)
    \o (IF TemperatureDropFires(cur, prv)
        THEN << [type |-> "temperature_drop",
                 severity |-> TemperatureSeverity(cur, prv)] >>
        ELSE << >>)
    \o (IF MotionSurgeFires(cur, prv)
        THEN << [type |-> "motion_surge", severity |-> MotionSeverity(cur)] >>
        ELSE << >>)
    \o (IF EvpPatternFires(cur, prv)
        THEN << [type |-> "evp_pattern", severity |-> EvpSeverity(cur)] >>
        ELSE << >>)

Pick_Last(candidates) == candidates[Len(candidates)]

\* const pick = candidates[0]
Pick(candidates) == candidates[1]

\* The anomaly built from the picked candidate: the fields that carry the
\* detection decision, the snapshot of the readings, the clock value and the
\* drawn entropy and hotspot.  The id, description and hash strings are
\* renderings of these inputs and of the draws dev and conf.
MakeAnomaly_SeverityByDraw(cur, pick, now, d) ==
    [ timestamp |-> now,
      type      |-> pick.type,
      severity  |-> IF d.entropy > 500 THEN "high" ELSE pick.severity,
      readings  |-> [ emf |-> cur.emf, temperature |-> cur.temperature,
                      motion |-> cur.motion, audioLevel |-> cur.audioLevel ],
      entropy   |-> 650000 + d.entropy * 300,
      hotspot   |-> [ x |-> 150000 + d.x * 700, y |-> 150000 + d.y * 700 ] ]

MakeAnomaly(cur, pick, now, d) ==
    [ timestamp |-> now,
      type      |-> pick.type,
      severity  |-> pick.severity,
      readings  |-> [ emf |-> cur.emf, temperature |-> cur.temperature,
                      motion |-> cur.motion, audioLevel |-> cur.audioLevel ],
      entropy   |-> 650000 + d.entropy * 300,
      hotspot   |-> [ x |-> 150000 + d.x * 700, y |-> 150000 + d.y * 700 ] ]

Classify(cur, prv, now, d) ==
    LET candidates == Candidates(cur, prv)
    IN  IF Len(candidates) = 0 THEN Null
        ELSE MakeAnomaly(cur, Pick(candidates), now, d)

detectAnomaly_BaselinePrev(cur, prv, now, d) ==
    Classify(cur, IF prv = NoReading THEN INITIAL_SENSORS ELSE prv, now, d)

detectAnomaly(cur, prv, now, d) ==
    IF prv = NoReading THEN Null            \* if (!prev) return null
    ELSE Classify(cur, prv, now, d)

(***************************************************************************)
(* detectAnomaly: the id, description and hash strings                     *)
(*                                                                         *)
(* A string is the sequence of its UTF-16 code units.                      *)
(***************************************************************************)
\* String(n) for an integer n >= 0
RECURSIVE DecimalOf(_)
DecimalOf(n) ==
    IF n < 10 THEN << 48 + n >> ELSE DecimalOf(n \div 10) \o << 48 + (n % 10) >>

\* The string toFixed(places) returns for the number whose rounding to that
\* many places is n / 10^places: sign, integer part, then the point and the
\* fraction digits when places > 0
FixedString(n, places) ==
    LET unit == IF places = 0 THEN 1 ELSE IF places = 1 THEN 10 ELSE 100
        mag  == IF n < 0 THEN -n ELSE n
    IN  (IF n < 0 THEN << 45 >> ELSE << >>)
        \o DecimalOf(mag \div unit)
        \o (IF places = 0 THEN << >>
            ELSE << 46 >> \o PadStart(DecimalOf(mag % unit), places, 48))

\* n.toString(36) for an integer n >= 0: digits 0-9 then a-z
RECURSIVE Base36Of(_)
Base36Of(n) ==
    LET digit(k) == IF k < 10 THEN 48 + k ELSE 87 + k
    IN  IF n < 36 THEN << digit(n) >>
        ELSE Base36Of(n \div 36) \o << digit(n % 36) >>

\* s.slice(-n): the last n code units, all of s when it has fewer
SliceLast(s, n) == IF Len(s) <= n THEN s ELSE SubSeq(s, Len(s) - n + 1, Len(s))

\* const id = `\u0391${Date.now().toString(36).toUpperCase().slice(-5)}`
AnomalyId(now) ==
    LET \* s.toUpperCase() on digits and lowercase letters
        UpperCodes(s) ==
            [i \in 1..Len(s) |-> IF s[i] >= 97 /\ s[i] <= 122 THEN s[i] - 32 ELSE s[i]]
    IN  << 913 >> \o SliceLast(UpperCodes(Base36Of(now)), 5)

\* The desc of the candidate of the given type: the fixed pieces of each
\* template literal with the formatted numbers between them
CandidateDesc(type, cur, prv, d) ==
    LET
        \* "EMF spike: "
        EmfDescA ==
            << 69, 77, 70, 32, 115, 112, 105, 107, 101, 58, 32 >>
        \* " \u00B5T ("
        EmfDescB ==
            << 32, 181, 84, 32, 40 >>
        \* "\u00D7 baseline). Entropy deviation "
        EmfDescC ==
            << 215, 32, 98, 97, 115, 101, 108, 105, 110, 101, 41, 46, 32, 69, 110,
               116, 114, 111, 112, 121, 32, 100, 101, 118, 105, 97, 116, 105, 111,
               110, 32 >>
        \* "\u03C3 below QRNG baseline \u2014 structured non-randomness detected."
        EmfDescD ==
            << 963, 32, 98, 101, 108, 111, 119, 32, 81, 82, 78, 71, 32, 98, 97, 115,
               101, 108, 105, 110, 101, 32, 8212, 32, 115, 116, 114, 117, 99, 116,
               117, 114, 101, 100, 32, 110, 111, 110, 45, 114, 97, 110, 100, 111,
               109, 110, 101, 115, 115, 32, 100, 101, 116, 101, 99, 116, 101, 100,
               46 >>
        \* "Rapid thermal drop: \u2212"
        TempDescA ==
            << 82, 97, 112, 105, 100, 32, 116, 104, 101, 114, 109, 97, 108, 32, 100,
               114, 111, 112, 58, 32, 8722 >>
        \* "\u00B0C in <500ms. Thermodynamic analysis: inconsistent with HVAC cycling or occupant-induced convection."
        TempDescB ==
            << 176, 67, 32, 105, 110, 32, 60, 53, 48, 48, 109, 115, 46, 32, 84, 104,
               101, 114, 109, 111, 100, 121, 110, 97, 109, 105, 99, 32, 97, 110, 97,
               108, 121, 115, 105, 115, 58, 32, 105, 110, 99, 111, 110, 115, 105,
               115, 116, 101, 110, 116, 32, 119, 105, 116, 104, 32, 72, 86, 65, 67,
               32, 99, 121, 99, 108, 105, 110, 103, 32, 111, 114, 32, 111, 99, 99,
               117, 112, 97, 110, 116, 45, 105, 110, 100, 117, 99, 101, 100, 32, 99,
               111, 110, 118, 101, 99, 116, 105, 111, 110, 46 >>
        \* "Motion surge: "
        MotionDescA ==
            << 77, 111, 116, 105, 111, 110, 32, 115, 117, 114, 103, 101, 58, 32 >>
        \* "% intensity threshold. No registered occupant displacement in sensor zone."
        MotionDescB ==
            << 37, 32, 105, 110, 116, 101, 110, 115, 105, 116, 121, 32, 116, 104,
               114, 101, 115, 104, 111, 108, 100, 46, 32, 78, 111, 32, 114, 101, 103,
               105, 115, 116, 101, 114, 101, 100, 32, 111, 99, 99, 117, 112, 97, 110,
               116, 32, 100, 105, 115, 112, 108, 97, 99, 101, 109, 101, 110, 116, 32,
               105, 110, 32, 115, 101, 110, 115, 111, 114, 32, 122, 111, 110, 101,
               46 >>
        \* "EVP-class audio event: "
        EvpDescA ==
            << 69, 86, 80, 45, 99, 108, 97, 115, 115, 32, 97, 117, 100, 105, 111, 32,
               101, 118, 101, 110, 116, 58, 32 >>
        \* " dBSPL. CNN pattern classifier: "
        EvpDescB ==
            << 32, 100, 66, 83, 80, 76, 46, 32, 67, 78, 78, 32, 112, 97, 116, 116,
               101, 114, 110, 32, 99, 108, 97, 115, 115, 105, 102, 105, 101, 114, 58,
               32 >>
        \* "% confidence of non-ambient structured signal in 80\u20133400 Hz band."
        EvpDescC ==
            << 37, 32, 99, 111, 110, 102, 105, 100, 101, 110, 99, 101, 32, 111, 102,
               32, 110, 111, 110, 45, 97, 109, 98, 105, 101, 110, 116, 32, 115, 116,
               114, 117, 99, 116, 117, 114, 101, 100, 32, 115, 105, 103, 110, 97,
               108, 32, 105, 110, 32, 56, 48, 8211, 51, 52, 48, 48, 32, 72, 122, 32,
               98, 97, 110, 100, 46 >>
        \* (current.emf / 0.2).toFixed(1), in tenths
        EmfMult == (cur.emf + 1) \div 2
        \* (Math.random() * 0.35 + 0.12).toFixed(2), in hundredths
        EmfDev(r) == (r * 35 + 12000 + 500) \div 1000
        \* (Math.random() * 30 + 55).toFixed(0)
        EvpConf(r) == (r * 30 + 55000 + 500) \div 1000
    IN  CASE type = "emf_spike" ->
                EmfDescA \o FixedString(cur.emf, 2) \o EmfDescB
                  \o FixedString(EmfMult, 1) \o EmfDescC
                  \o FixedString(EmfDev(d.dev), 2) \o EmfDescD
          [] type = "temperature_drop" ->
                TempDescA \o FixedString(Drop(cur, prv) \div 10, 1) \o TempDescB
          [] type = "motion_surge" ->
                MotionDescA \o FixedString(cur.motion, 0) \o MotionDescB
          [] OTHER ->
                EvpDescA \o FixedString(ToFixed1(cur.audioLevel) \div 10, 1) \o EvpDescB
                  \o FixedString(EvpConf(d.conf), 0) \o EvpDescC

\* hash: simpleHash(id + pick.desc + current.timestamp)
AnomalyHash(id, desc, cur) == simpleHash(id \o desc \o DecimalOf(cur.timestamp))

\* The id, timestamp, description and hash fields of detectAnomaly's return
\* value; nowId and nowTimestamp are the two reads of Date.now()
AnomalyDigestFields(cur, prv, nowId, nowTimestamp, d) ==
    IF prv = NoReading THEN Null
    ELSE LET candidates == Candidates(cur, prv)
         IN  IF Len(candidates) = 0 THEN Null
             ELSE LET pick == Pick(candidates)
                      id   == AnomalyId(nowId)
                      desc == CandidateDesc(pick.type, cur, prv, d)
                  IN  [ id          |-> id,
                        timestamp   |-> nowTimestamp,
                        description |-> desc,
                        hash        |-> AnomalyHash(id, desc, cur) ]

(***************************************************************************)
(* EchoScreen: chat messages, key management and send                      *)
(*                                                                         *)
(* A text is the sequence of its characters.  A message content is either  *)
(* [text |-> t] for a text that was typed or received, or [literal |-> l]  *)
(* for one of the fixed strings of the component.  The timestamp of a      *)
(* message is left out: no handler reads it.                               *)
(***************************************************************************)
\* s.trim() on texts whose only whitespace is the space
RECURSIVE TrimStart(_)
TrimStart(s) == IF s # << >> /\ Head(s) = " " THEN TrimStart(Tail(s)) ELSE s

RECURSIVE TrimEnd(_)
TrimEnd(s) ==
    IF s # << >> /\ s[Len(s)] = " " THEN TrimEnd(SubSeq(s, 1, Len(s) - 1)) ELSE s

Trim(s) == TrimEnd(TrimStart(s))

\* The initial message of the chat
Greeting == [ role |-> "echo", content |-> [literal |-> "echo_online"] ]

\* The content send appends when no key is stored
NoKeyWarning == [literal |-> "no_key_configured"]

\* The content send appends when the response carries no reply text
SignalLost == [literal |-> "signal_lost"]

\* The content send appends when the request throws
Interference == [literal |-> "connection_interference"]

\* { role: "system", content: buildSystemPrompt() }
SystemEntry == [ role |-> "system", content |-> [literal |-> "system_prompt"] ]

\* The entry of the request for a chat message
HistoryEntry(m) ==
    [ role |-> IF m.role = "echo" THEN "assistant" ELSE "user", content |-> m.content ]

History_WithGreeting(msgs) ==
    LET recent == SliceLast(msgs, 18)
    IN  [i \in 1..Len(recent) |-> HistoryEntry(recent[i])]

\* messages.slice(1).slice(-18).map(...)
History(msgs) ==
    LET recent == SliceLast(Slice(msgs, 1), 18)
    IN  [i \in 1..Len(recent) |-> HistoryEntry(recent[i])]

\* payload.messages
RequestMessages(msgs, userMessage) ==
    << SystemEntry >> \o History(msgs)
       \o << [ role |-> "user", content |-> [text |-> userMessage] ] >>

SendAccepted_IgnoreThinking(text, busy) == Trim(text) # << >>

\* if (!input.trim() || thinking) return: whether send goes on
SendAccepted(text, busy) == Trim(text) # << >> /\ ~busy

IssuedCommand_WithoutKey(storedKey, last) == [ run |-> TRUE, bearer |-> storedKey ]

\* The last command handed to runCommand after a send: none is issued when
\* storedKey is empty
IssuedCommand(storedKey, last) ==
    IF storedKey = << >> THEN last ELSE [ run |-> TRUE, bearer |-> storedKey ]

\* localStorage without the item, and with it
NoItem == [present |-> FALSE]
Item(value) == [present |-> TRUE, value |-> value]

\* localStorage.getItem("groq_api_key") || ""
StoredKey(item) == IF item.present THEN item.value ELSE << >>

\* No command run yet
NoCommand == [run |-> FALSE]

EchoIdle ==
    /\ messages = << Greeting >>
    /\ input = << >>
    /\ thinking = FALSE
    /\ groqKey = << >>
    /\ showKeyInput = FALSE
    /\ keyDraft = << >>
    /\ localKey = NoItem
    /\ payload = << >>
    /\ command = NoCommand
    /\ sends = 0
    /\ inFlight = 0

(***************************************************************************)
(* SpiritBoxScreen: the frequency sweep                                    *)
(*                                                                         *)
(* Frequencies are in tenths of a MHz.  Every frequency the sweep produces *)
(* is 87.5 or a result of toFixed(1), so it has one decimal; the sum       *)
(* freq + 0.1 * rate of such a value, rounded by toFixed(1), is the sum in *)
(* tenths, and the comparison with 108.0 comes out as on the tenths.       *)
(***************************************************************************)
NextFreq_WrapAtEdge(f, rate) == IF f + rate >= 1080 THEN 875 ELSE f + rate

\* newFreq = freqRef.current + step > 108.0 ? 87.5
\*             : parseFloat((freqRef.current + step).toFixed(1))
NextFreq(f, rate) == IF f + rate > 1080 THEN 875 ELSE f + rate

\* [contact, ...prev.slice(0, 24)]: the length of the list after a contact
ContactsAfter(n) == 1 + Min(n, 24)

SpiritIdle ==
    /\ sbSweeping = FALSE
    /\ sbFreq = 875
    /\ freqRef = 875
    /\ sweepRate = 1
    /\ sweepRateRef = 1
    /\ contactActive = FALSE
    /\ contactCount = 0
    /\ openContexts = 0

(***************************************************************************)
(* Specification of the quantum-metric generator                           *)
(***************************************************************************)
DetectorIdle ==
    /\ current = INITIAL_SENSORS
    /\ prev = NoReading
    /\ anomaly = Null
    /\ detected = FALSE

DeviationIdle == devScore = NoScore

\* let eventPhase = 0; let eventTimer = 0
EventIdle ==
    /\ eventPhase = 0
    /\ eventTimer = 0
    /\ simRun = [ calls |-> 0, elapsed |-> 0, since |-> 0, starts |-> 0, negative |-> FALSE ]

\* A call that has not been made
NotCalled == [called |-> FALSE]

\* The app before BEGIN INVESTIGATION is pressed, no generateQuantumEntropy
\* call made; qrngBaseline.current is one of the values its initial call
\* can return
AppIdle ==
    /\ stage = "landing"
    /\ screen = "dashboard"
    /\ scanActive = TRUE
    /\ loadingDone = "none"
    /\ intervals = 0
    /\ readings = << >>
    /\ anomalies = << >>
    /\ qrngBaseline = 0
    /\ streamTicks = 0
    /\ entropyBuf = << >>
    /\ entropyOut = NotCalled

DigestIdle ==
    /\ runCurrent = << INITIAL_SENSORS, INITIAL_SENSORS >>
    /\ runAnomaly = << NotCalled, NotCalled >>

HashIdle ==
    /\ hashInput = << >>
    /\ hashI = 0
    /\ hashAcc = HashSeed
    /\ hashOut = << >>

InitQuantum ==
    /\ \E k \in WindowKinds : quantum = INITIAL_QUANTUM(Window(WindowLen, k))
    /\ prevBits = << >>
    /\ ticks = 0
    /\ DetectorIdle
    /\ DeviationIdle
    /\ HashIdle
    /\ DigestIdle
    /\ EventIdle
    /\ EchoIdle
    /\ SpiritIdle
    /\ AppIdle

\* One call quantum = buildQuantumState(quantum, deviation); the array
\* prev.bits is read by updateQRNGStream only, eventPhase and eventTimer are
\* not referenced
Build ==
    \E deviation \in DevVals, d \in DrawSets :
        /\ quantum' = buildQuantumState(quantum, deviation, d)
        /\ prevBits' = SliceReceiver(quantum.bits, SliceFrom)
        /\ ticks' = ticks + 1
        /\ UNCHANGED <<detectVars, deviationVars, hashVars, digestVars, eventVars, echoVars, spiritVars, appVars>>

Tick ==
    /\ ticks < MaxTicks
    /\ Build

NextQuantum == Tick

SpecQuantum == InitQuantum /\ [][NextQuantum]_vars

(***************************************************************************)
(* Specification of buildQuantumState on a previous window of any length   *)
(***************************************************************************)
\* Lengths of the previous window: empty, shorter than, equal to and longer
\* than the 4 elements slice(4) drops, and around 64
AnyLens == {0, 1, 3, 4, 5, 60, 64, 68}

InitAnyWindow ==
    /\ \E n \in AnyLens, k \in {"ones", "alternating"} :
           quantum = INITIAL_QUANTUM(Window(n, k))
    /\ prevBits = << >>
    /\ ticks = 0
    /\ DetectorIdle
    /\ DeviationIdle
    /\ HashIdle
    /\ DigestIdle
    /\ EventIdle
    /\ EchoIdle
    /\ SpiritIdle
    /\ AppIdle

TickAny ==
    /\ ticks < MaxAnyTicks
    /\ Build

NextAnyWindow == TickAny

SpecAnyWindow == InitAnyWindow /\ [][NextAnyWindow]_vars

(***************************************************************************)
(* Specification of the anomaly detector                                   *)
(***************************************************************************)
QuantumIdle ==
    /\ quantum = INITIAL_QUANTUM(Window(WindowLen, "alternating"))
    /\ prevBits = << >>
    /\ ticks = 0

InitDetect ==
    /\ current \in CurReadings
    /\ prev \in PrevReadings \cup {NoReading}
    /\ anomaly = Null
    /\ detected = FALSE
    /\ QuantumIdle
    /\ DeviationIdle
    /\ HashIdle
    /\ DigestIdle
    /\ EventIdle
    /\ EchoIdle
    /\ SpiritIdle
    /\ AppIdle

\* One call anomaly = detectAnomaly(current, prev)
Detect ==
    /\ ~detected
    /\ \E now \in ClockVals, d \in DetectDraws :
           anomaly' = detectAnomaly(current, prev, now, d)
    /\ detected' = TRUE
    /\ UNCHANGED <<quantumVars, current, prev, deviationVars, hashVars, digestVars, eventVars, echoVars, spiritVars, appVars>>

NextDetect == Detect

SpecDetect == InitDetect /\ [][NextDetect]_vars

(***************************************************************************)
(* Specification of calcDeviationScore                                     *)
(***************************************************************************)
\* Sensor values in the documented ranges (emf 0.05..14.0, temperature
\* 13..28, motion 0..1): the ends of each range, the points where a
\* normalised term starts or saturates, and INITIAL_SENSORS
InitDeviation ==
    /\ \E e \in {5, 19, 25, 250, 475, 1400},
          t \in {1300, 1500, 2100, 2140, 2800},
          m \in {0, 1, 50, 72, 100} :
           current = [ emf |-> e, temperature |-> t, motion |-> m,
                       pressure |-> 101320, audioLevel |-> -5300,
                       timestamp |-> 1000 ]
    /\ prev = NoReading
    /\ anomaly = Null
    /\ detected = FALSE
    /\ QuantumIdle
    /\ DeviationIdle
    /\ HashIdle
    /\ DigestIdle
    /\ EventIdle
    /\ EchoIdle
    /\ SpiritIdle
    /\ AppIdle

\* One call devScore = calcDeviationScore(current.emf, current.temperature,
\* current.motion)
CalcDeviation ==
    /\ devScore = NoScore
    /\ \E r \in RandVals :
           devScore' = [score |-> calcDeviationScore(current.emf,
                                  current.temperature, current.motion, r)]
    /\ UNCHANGED <<quantumVars, detectVars, hashVars, digestVars, eventVars, echoVars, spiritVars, appVars>>

NextDeviation == CalcDeviation

SpecDeviation == InitDeviation /\ [][NextDeviation]_vars

(***************************************************************************)
(* Specification of simpleHash                                             *)
(***************************************************************************)
\* Code units of the generic inputs: "0", "a", the id's leading Greek capital
\* alpha (U+0391) and the largest code unit
HashAlphabet == {48, 97, 913, 65535}

\* Every string over HashAlphabet up to MaxHashLen, and four strings chosen
\* for the value the accumulator ends at
HashInputs ==
    UNION { [1..n -> HashAlphabet] : n \in 0..MaxHashLen }
      \cup { << 97, 101, 120, 120, 103, 121, 112, 117 >>,  \* "aexxgypu": -2147483648
             << 97, 101, 120, 120, 103, 121, 112, 116 >>,  \* "aexxgypt": 2147483647
             << 97, 103, 109, 116, 97, 118, 100, 119 >>,   \* "agmtavdw": 0
             << 97, 103, 109, 116, 97, 118, 100, 118 >> }  \* "agmtavdv": -1

InitHash ==
    /\ hashInput \in HashInputs
    /\ hashI = 0
    /\ hashAcc = HashSeed
    /\ hashOut = << >>
    /\ QuantumIdle
    /\ DetectorIdle
    /\ DeviationIdle
    /\ DigestIdle
    /\ EventIdle
    /\ EchoIdle
    /\ SpiritIdle
    /\ AppIdle

\* One iteration of the loop
HashChar ==
    /\ hashI < Len(hashInput)
    /\ hashAcc' = HashStep(hashAcc, hashInput[hashI + 1])
    /\ hashI' = hashI + 1
    /\ UNCHANGED <<hashInput, hashOut, quantumVars, detectVars, deviationVars, digestVars, eventVars, echoVars, spiritVars, appVars>>

\* The return statement
HashReturn ==
    /\ hashI = Len(hashInput)
    /\ hashOut = << >>
    /\ hashOut' = HashRender(hashAcc)
    /\ UNCHANGED <<hashInput, hashI, hashAcc, quantumVars, detectVars, deviationVars, digestVars, eventVars, echoVars, spiritVars, appVars>>

NextHash == HashChar \/ HashReturn

SpecHash == InitHash /\ [][NextHash]_vars

(***************************************************************************)
(* Specification of two detectAnomaly calls, for the returned strings      *)
(***************************************************************************)
\* The previous reading of both calls
DigestPrev ==
    [ emf |-> 50, temperature |-> 2100, motion |-> 1, pressure |-> 101320,
      audioLevel |-> -5000, timestamp |-> 500 ]

\* Current readings: one that fires each test alone and one that fires none,
\* each with two timestamps
DigestReadings ==
    LET profiles ==
          { [ emf |-> 300, temperature |-> 2100, motion |-> 1,  audioLevel |-> -5000 ],
            [ emf |-> 50,  temperature |-> 1750, motion |-> 1,  audioLevel |-> -5000 ],
            [ emf |-> 50,  temperature |-> 2100, motion |-> 90, audioLevel |-> -5000 ],
            [ emf |-> 50,  temperature |-> 2100, motion |-> 1,  audioLevel |-> -1000 ],
            [ emf |-> 50,  temperature |-> 2100, motion |-> 1,  audioLevel |-> -5000 ] }
    IN  { [ emf |-> p.emf, temperature |-> p.temperature, motion |-> p.motion,
            pressure |-> 101320, audioLevel |-> p.audioLevel, timestamp |-> t ] :
            p \in profiles, t \in {999, 1000} }

\* Values of Date.now() during a call: six base-36 digits, so that the id
\* keeps the last five
DigestClockVals == {60467176, 60467177}

\* The draws of one call that reach the description
DigestDraws == { [dev |-> a, conf |-> a] : a \in RandVals }

InitDigest ==
    /\ runCurrent \in { << a, b >> : a \in DigestReadings, b \in DigestReadings }
    /\ runAnomaly = << NotCalled, NotCalled >>
    /\ QuantumIdle
    /\ DetectorIdle
    /\ DeviationIdle
    /\ HashIdle
    /\ EventIdle
    /\ EchoIdle
    /\ SpiritIdle
    /\ AppIdle

\* The k-th call: detectAnomaly(runCurrent[k], DigestPrev); the calls are made
\* in order
DigestDetect(k) ==
    /\ runAnomaly[k] = NotCalled
    /\ k = 1 \/ runAnomaly[1] # NotCalled
    /\ \E nowId \in DigestClockVals, nowTimestamp \in DigestClockVals, d \in DigestDraws :
           /\ nowId <= nowTimestamp
           /\ runAnomaly' = [runAnomaly EXCEPT ![k] =
                  AnomalyDigestFields(runCurrent[k], DigestPrev, nowId, nowTimestamp, d)]
    /\ UNCHANGED <<runCurrent, quantumVars, detectVars, deviationVars, hashVars, eventVars, echoVars, spiritVars, appVars>>

NextDigest == \E k \in 1..2 : DigestDetect(k)

SpecDigest == InitDigest /\ [][NextDigest]_vars

(***************************************************************************)
(* Specification of one buildQuantumState call and one detectAnomaly call  *)
(* while the sensor simulator is in the middle of its cycle                *)
(***************************************************************************)
\* The current reading fires no test or fires all four.  eventPhase is as
\* simulateSensors leaves it with no event running or one step of 500 ms into
\* an event (9000 - 500); eventTimer as it is one step of 500 ms after a
\* reset or at the retry value EVENT_INTERVAL_MS - 12000.
InitFrame ==
    /\ QuantumIdle
    /\ current \in
          { [ emf |-> 50, temperature |-> 2100, motion |-> 1, pressure |-> 101320,
              audioLevel |-> -5000, timestamp |-> 1000 ],
            [ emf |-> 700, temperature |-> 1500, motion |-> 90, pressure |-> 101320,
              audioLevel |-> -1000, timestamp |-> 1000 ] }
    /\ prev = DigestPrev
    /\ anomaly = Null
    /\ detected = FALSE
    /\ eventPhase \in {0, 8500}
    /\ eventTimer \in {500, 28000}
    /\ simRun = [ calls |-> 1, elapsed |-> 500, since |-> eventTimer, starts |-> 0,
                  negative |-> FALSE ]
    /\ DeviationIdle
    /\ HashIdle
    /\ DigestIdle
    /\ EchoIdle
    /\ SpiritIdle
    /\ AppIdle

\* The buildQuantumState call, made once
FrameBuild ==
    /\ ticks = 0
    /\ Build

NextFrame == FrameBuild \/ Detect

SpecFrame == InitFrame /\ [][NextFrame]_vars

(***************************************************************************)
(* Specification of EchoScreen                                             *)
(***************************************************************************)
\* The chat after n exchanges: the greeting, then question and answer n
\* times, each text carrying the number of its exchange
RECURSIVE ChatAfter(_)
ChatAfter(n) ==
    LET names == << "1", "2", "3", "4", "5", "6", "7", "8", "9", "10", "11", "12" >>
    IN  IF n = 0 THEN << Greeting >>
        ELSE ChatAfter(n - 1)
               \o << [ role |-> "user", content |-> [text |-> << "q", names[n] >>] ],
                     [ role |-> "echo", content |-> [text |-> << "r", names[n] >>] ] >>

InitEcho ==
    /\ \E n \in 0..MaxPriorExchanges : messages = ChatAfter(n)
    /\ input = << >>
    /\ thinking = FALSE
    /\ localKey = NoItem
    /\ groqKey = StoredKey(localKey)
    /\ showKeyInput = FALSE
    /\ keyDraft = << >>
    /\ payload = << >>
    /\ command = NoCommand
    /\ sends = 0
    /\ inFlight = 0
    /\ QuantumIdle
    /\ DetectorIdle
    /\ DeviationIdle
    /\ HashIdle
    /\ DigestIdle
    /\ EventIdle
    /\ SpiritIdle
    /\ AppIdle

restOfEcho ==
    <<quantumVars, detectVars, deviationVars, hashVars, digestVars, eventVars, spiritVars, appVars>>

\* The settings button
ToggleKeyInput ==
    /\ showKeyInput' = ~showKeyInput
    /\ keyDraft' = groqKey
    /\ UNCHANGED <<messages, input, thinking, groqKey, localKey, payload, command, sends, inFlight, restOfEcho>>

\* onChange of the key field: a blank text or a key between spaces
EditKeyDraft ==
    /\ showKeyInput
    /\ \E t \in { << " " >>, << " ", "k", " " >> } : keyDraft' = t
    /\ UNCHANGED <<messages, input, thinking, groqKey, showKeyInput, localKey, payload,
                   command, sends, inFlight, restOfEcho>>

saveKey ==
    /\ showKeyInput
    /\ localKey' = Item(Trim(keyDraft))
    /\ groqKey' = Trim(keyDraft)
    /\ showKeyInput' = FALSE
    /\ keyDraft' = << >>
    /\ UNCHANGED <<messages, input, thinking, payload, command, sends, inFlight, restOfEcho>>

\* The Clear button, rendered when groqKey is not empty
ClearKey ==
    /\ showKeyInput
    /\ groqKey # << >>
    /\ localKey' = NoItem
    /\ groqKey' = << >>
    /\ showKeyInput' = FALSE
    /\ UNCHANGED <<messages, input, thinking, keyDraft, payload, command, sends, inFlight, restOfEcho>>

\* onChange of the chat input: a blank text or a message between spaces
EditInput ==
    /\ \E t \in { << " " >>, << " ", "a", " " >> } : input' = t
    /\ UNCHANGED <<messages, thinking, groqKey, showKeyInput, keyDraft, localKey, payload,
                   command, sends, inFlight, restOfEcho>>

send_SilentWithoutKey ==
    /\ SendAccepted(input, thinking)
    /\ sends < MaxSends
    /\ LET userMessage == Trim(input)
           storedKey == StoredKey(localKey)
           asked == Append(messages, [ role |-> "user", content |-> [text |-> userMessage] ])
       IN  /\ input' = << >>
           /\ payload' = RequestMessages(messages, userMessage)
           /\ command' = IssuedCommand(storedKey, command)
           /\ messages' = asked
           /\ thinking' = (storedKey # << >>)
           /\ inFlight' = IF storedKey = << >> THEN inFlight ELSE inFlight + 1
    /\ sends' = sends + 1
    /\ UNCHANGED <<groqKey, showKeyInput, keyDraft, localKey, restOfEcho>>

\* send, up to its return (no key stored) or up to the await of runCommand
send ==
    /\ SendAccepted(input, thinking)
    /\ sends < MaxSends
    /\ LET userMessage == Trim(input)
           storedKey == StoredKey(localKey)
           asked == Append(messages, [ role |-> "user", content |-> [text |-> userMessage] ])
       IN  /\ input' = << >>
           /\ payload' = RequestMessages(messages, userMessage)
           /\ command' = IssuedCommand(storedKey, command)
           /\ IF storedKey = << >>
                THEN /\ messages' = Append(asked, [ role |-> "echo", content |-> NoKeyWarning ])
                     /\ thinking' = FALSE
                     /\ inFlight' = inFlight
                ELSE /\ messages' = asked
                     /\ thinking' = TRUE
                     /\ inFlight' = inFlight + 1
    /\ sends' = sends + 1
    /\ UNCHANGED <<groqKey, showKeyInput, keyDraft, localKey, restOfEcho>>

\* The rest of send once a runCommand call has settled: the reply (the empty
\* text stands for a response without reply text, which gets the fallback),
\* or the catch branch
sendSettles ==
    /\ inFlight > 0
    /\ \/ \E raw \in { << >>, << "o", "k", " " >> } :
             LET reply == IF Trim(raw) = << >> THEN SignalLost ELSE [text |-> Trim(raw)]
             IN  messages' = Append(messages, [ role |-> "echo", content |-> reply ])
       \/ messages' = Append(messages, [ role |-> "echo", content |-> Interference ])
    /\ thinking' = FALSE
    /\ inFlight' = inFlight - 1
    /\ UNCHANGED <<input, groqKey, showKeyInput, keyDraft, localKey, payload, command,
                   sends, restOfEcho>>

NextEcho ==
    \/ ToggleKeyInput
    \/ EditKeyDraft
    \/ saveKey
    \/ ClearKey
    \/ EditInput
    \/ send
    \/ sendSettles

SpecEcho == InitEcho /\ [][NextEcho]_vars

(***************************************************************************)
(* Specification of the Spirit Box sweep                                   *)
(***************************************************************************)
\* The app stage right after loading, the Spirit Box screen opened
InitSpirit ==
    /\ SpiritIdle
    /\ stage = "app"
    /\ screen = "spiritbox"
    /\ scanActive = TRUE
    /\ loadingDone = "fired"
    /\ intervals = 1
    /\ readings = << >>
    /\ anomalies = << >>
    /\ qrngBaseline = 0
    /\ streamTicks = 0
    /\ entropyBuf = << >>
    /\ entropyOut = NotCalled
    /\ QuantumIdle
    /\ DetectorIdle
    /\ DeviationIdle
    /\ HashIdle
    /\ DigestIdle
    /\ EventIdle
    /\ EchoIdle

restOfSpirit ==
    <<quantumVars, detectVars, deviationVars, hashVars, digestVars, eventVars, echoVars, appVars>>

\* The SpiritBoxScreen is rendered
Mounted == stage = "app" /\ screen = "spiritbox"

AudioEffect_NeverCloses(was, sweeping, n) == n + (IF sweeping THEN 1 ELSE 0)

\* The AudioContexts open after the start/stop effect of useSpiritBoxAudio:
\* the cleanup of a run that created a context closes it (on a change of
\* sweeping and on unmount); a run with sweeping creates one; a run without
\* finds ctxRef.current null and closes nothing
AudioEffect(was, sweeping, n) ==
    (n - (IF was THEN 1 ELSE 0)) + (IF sweeping THEN 1 ELSE 0)

\* The START / STOP button, and the audio effect of the render
ToggleSweep ==
    /\ Mounted
    /\ sbSweeping' = ~sbSweeping
    /\ openContexts' = AudioEffect(sbSweeping, ~sbSweeping, openContexts)
    /\ UNCHANGED <<sbFreq, freqRef, sweepRate, sweepRateRef, contactActive, contactCount,
                   restOfSpirit>>

\* A rate button: 1, 2 or 3
SetSweepRate ==
    /\ Mounted
    /\ \E r \in {1, 2, 3} : sweepRate' = r
    /\ UNCHANGED <<sbSweeping, sbFreq, freqRef, sweepRateRef, contactActive, contactCount,
                   openContexts, restOfSpirit>>

\* The effect of a render with a new sweepRate
SyncSweepRate ==
    /\ Mounted
    /\ sweepRateRef # sweepRate
    /\ sweepRateRef' = sweepRate
    /\ UNCHANGED <<sbSweeping, sbFreq, freqRef, sweepRate, contactActive, contactCount,
                   openContexts, restOfSpirit>>

\* One callback of the 55 ms interval, which exists while the screen is
\* mounted and sweeping; the effect of the render that follows writes to
\* freqRef the value it holds.  A contact is drawn or not.
SweepTick ==
    /\ Mounted
    /\ sbSweeping
    /\ freqRef' = NextFreq(freqRef, sweepRateRef)
    /\ sbFreq' = freqRef'
    /\ \/ UNCHANGED <<contactActive, contactCount>>
       \/ /\ contactActive' = TRUE
          /\ contactCount' = ContactsAfter(contactCount)
    /\ UNCHANGED <<sbSweeping, sweepRate, sweepRateRef, openContexts, restOfSpirit>>

\* The timeout that ends the display of a contact word
WordTimeout ==
    /\ Mounted
    /\ contactActive
    /\ contactActive' = FALSE
    /\ UNCHANGED <<sbSweeping, sbFreq, freqRef, sweepRate, sweepRateRef, contactCount,
                   openContexts, restOfSpirit>>

\* The NavBar, away from the Spirit Box screen and back.  Leaving unmounts
\* the screen: the cleanups of its effects run and its own state and refs
\* are gone, a later word timeout finds nothing to change; they are shown
\* here as the next mount creates them (useState(1), useState(false),
\* useRef(freq), useRef(1)).  Coming back mounts it and runs its effects with
\* the sweeping the App has kept.
SpiritNavigate ==
    /\ stage = "app"
    /\ \/ /\ screen = "spiritbox"
          /\ screen' = "dashboard"
          /\ openContexts' = AudioEffect(sbSweeping, FALSE, openContexts)
       \/ /\ screen = "dashboard"
          /\ screen' = "spiritbox"
          /\ openContexts' = AudioEffect(FALSE, sbSweeping, openContexts)
    /\ sweepRate' = 1
    /\ sweepRateRef' = 1
    /\ contactActive' = FALSE
    /\ freqRef' = sbFreq
    /\ UNCHANGED <<sbSweeping, sbFreq, contactCount>>
    /\ UNCHANGED <<stage, scanActive, loadingDone, intervals, readings, anomalies,
                   qrngBaseline, streamTicks, entropyBuf, entropyOut>>
    /\ UNCHANGED <<quantumVars, detectVars, deviationVars, hashVars, digestVars, eventVars,
                   echoVars>>

NextSpirit ==
    \/ ToggleSweep
    \/ SetSweepRate
    \/ SyncSweepRate
    \/ SweepTick
    \/ WordTimeout
    \/ SpiritNavigate

SpecSpirit == InitSpirit /\ [][NextSpirit]_vars

(***************************************************************************)
(* Properties of the quantum-metric generator                              *)
(***************************************************************************)
\* C1: starting from INITIAL_QUANTUM, after any number of buildQuantumState
\* transitions the bits window has length exactly 64 and every element is
\* 0 or 1.
C1_BitsWindow64 ==
    /\ Len(quantum.bits) = 64
    /\ \A i \in 1..Len(quantum.bits) : quantum.bits[i] \in {0, 1}

\* C1 witness: two transitions have been made and the window holds both bit
\* values.
C1_Witness ==
    /\ ticks >= 2
    /\ Len(quantum.bits) = 64
    /\ \E i, j \in 1..64 : quantum.bits[i] = 0 /\ quantum.bits[j] = 1

\* C2: for a 64-bit previous window, a buildQuantumState call returns a window
\* whose first 60 bits are bits 5..64 of the previous window in order and
\* whose last 4 bits are values in {0,1}.
C2_ShiftByFour ==
    [][ (ticks' = ticks + 1 /\ Len(quantum.bits) = 64) =>
          /\ Len(quantum'.bits) = 64
          /\ \A i \in 1..60 : quantum'.bits[i] = quantum.bits[i + 4]
          /\ \A i \in 61..64 : quantum'.bits[i] \in {0, 1} ]_vars

\* C2 witness: after two calls on the all-zero window, the first call's fresh
\* bits 1 1 1 1 sit at 57..60 and the second call's 0 1 0 1 at 61..64.
C2_Witness ==
    /\ ticks = 2
    /\ Len(quantum.bits) = 64
    /\ \A i \in 1..56 : quantum.bits[i] = 0
    /\ SubSeq(quantum.bits, 57, 64) = <<1, 1, 1, 1, 0, 1, 0, 1>>

\* C3: for every deviationScore in [0,1] and every outcome of the draws, the
\* sValue of the state buildQuantumState returns lies in [0, 2.828].
C3_SValueInRange ==
    (quantum.deviationScore >= 0 /\ quantum.deviationScore <= 1000000) =>
        (quantum.sValue >= 0 /\ quantum.sValue <= 2828000)

\* C3 witness: a call with deviationScore 1 returned the ceiling 2.828.
C3_Witness ==
    /\ ticks >= 1
    /\ quantum.deviationScore = 1000000
    /\ quantum.sValue = 2828000

\* C4: in every state reachable from INITIAL_QUANTUM (64-bit window, every
\* outcome of the jitter draw) the entropy lies in [0,1].
C4_EntropyInRange ==
    Len(quantum.bits) = 64 =>
        (quantum.entropy >= 0 /\ quantum.entropy <= 1000000)

\* C4 witness: a call on a balanced window (32 ones) with upward jitter
\* returned the clamped value 1.
C4_Witness ==
    /\ ticks >= 1
    /\ Ones(quantum.bits) = 32
    /\ quantum.entropy = 1000000

\* C10 as stated: the returned bits sequence has length 64 whatever the length
\* of the previous window.
C10_AlwaysLength64 ==
    ticks >= 1 => Len(quantum.bits) = 64

\* C10 amended: a call on a previous window of n bits returns a window of
\* max(n - 4, 0) + 4 bits, which is 64 exactly when n is 64.
C10_LengthFollowsPrevious ==
    [][ ticks' = ticks + 1 =>
          /\ Len(quantum'.bits) = Max(Len(quantum.bits) - 4, 0) + 4
          /\ (Len(quantum'.bits) = 64 <=> Len(quantum.bits) = 64) ]_vars

\* C10 witness: a call on the empty window returned just the 4 fresh bits.
C10_Witness ==
    /\ ticks = 1
    /\ Len(quantum.bits) = 4
    /\ quantum.bits = <<1, 0, 1, 1>>

\* C11: calcDeviationScore returns a value in [0,1] for every EMF, temperature
\* and motion input in the documented sensor ranges and every outcome of the
\* jitter, each of the three normalised terms being in [0,1] itself.
C11_DeviationInUnitRange ==
    devScore # NoScore =>
        /\ devScore.score >= 0 /\ devScore.score <= 1000000
        /\ EmfNorm(current.emf) >= 0 /\ EmfNorm(current.emf) <= 1000000
        /\ TempNorm(current.temperature) >= 0
        /\ TempNorm(current.temperature) <= 1000000
        /\ MotNorm(current.motion) >= 0 /\ MotNorm(current.motion) <= 1000000

\* C19: whenever deviationScore is at most 0.55, calcSValue returns the base
\* value alone, which lies in [1.85, 2.10]; a value above 2.10 is returned
\* only when deviationScore is greater than 0.55.
C19_BaseAloneUpToThreshold ==
    ticks >= 1 =>
        /\ quantum.deviationScore <= 550000 =>
              (quantum.sValue >= 1850000 /\ quantum.sValue <= 2100000)
        /\ quantum.sValue > 2100000 => quantum.deviationScore > 550000

\* C19 witness: a call with deviationScore exactly 0.55 and the largest base
\* draw returned the base alone.
C19_Witness ==
    /\ ticks >= 1
    /\ quantum.deviationScore = 550000
    /\ quantum.sValue = 2099750

\* C20: buildQuantumState yields entropy exactly 0, with no jitter added,
\* whenever the shifted 64-bit window is all 0 or all 1.
C20_UniformWindowZeroEntropy ==
    (/\ ticks >= 1
     /\ Len(quantum.bits) = 64
     /\ \E b \in {0, 1} : \A i \in 1..64 : quantum.bits[i] = b)
        => quantum.entropy = 0

\* C20 witness: two calls kept the all-ones window uniform and the entropy
\* returned is 0.
C20_Witness ==
    /\ ticks = 2
    /\ Len(quantum.bits) = 64
    /\ \A i \in 1..64 : quantum.bits[i] = 1
    /\ quantum.entropy = 0

(***************************************************************************)
(* Properties of the anomaly detector                                      *)
(***************************************************************************)
\* The four threshold predicates as the specification words them, on the
\* arguments of the call (previous reading present)
StatedEmfSpike == current.emf > 280 /\ prev.emf < 100
StatedTemperatureDrop == prev.temperature - current.temperature > 180
StatedMotionSurge == current.motion > 55 /\ prev.motion < 8
StatedEvpPattern == current.audioLevel > -2200 /\ prev.audioLevel < -4200

\* C5: detectAnomaly returns no anomaly whenever the previous reading is
\* absent, for every current reading.
C5_NoPreviousNoAnomaly ==
    (detected /\ prev = NoReading) => anomaly = Null

\* C5 witness: the call was made without a previous reading on a current
\* reading beyond every threshold.
C5_Witness ==
    /\ detected
    /\ prev = NoReading
    /\ current.emf = 700
    /\ current.temperature = 1500
    /\ current.motion = 90
    /\ current.audioLevel = -1000

\* C6: when several predicates hold, the returned anomaly's type is the first
\* firing one in the order emf_spike, temperature_drop, motion_surge,
\* evp_pattern.
C6_FirstMatchWins ==
    (detected /\ prev # NoReading /\ anomaly # Null) =>
        anomaly.type =
            IF StatedEmfSpike THEN "emf_spike"
            ELSE IF StatedTemperatureDrop THEN "temperature_drop"
            ELSE IF StatedMotionSurge THEN "motion_surge"
            ELSE IF StatedEvpPattern THEN "evp_pattern"
            ELSE "none"

\* C6 witness: EMF 0.5 -> 7.0 together with temperature 21 -> 15 returned
\* emf_spike, severity high.
C6_Witness ==
    /\ detected
    /\ prev # NoReading
    /\ prev.emf = 50 /\ prev.temperature = 2100
    /\ current.emf = 700 /\ current.temperature = 1500
    /\ current.motion = 1 /\ current.audioLevel = -5000
    /\ anomaly # Null
    /\ anomaly.type = "emf_spike"
    /\ anomaly.severity = "high"

\* C7: with a previous reading present, an anomaly is returned if and only if
\* at least one of the four predicates holds; values on a threshold do not
\* fire.
C7_AnomalyIffPredicate ==
    (detected /\ prev # NoReading) =>
        (anomaly # Null <=>
            (StatedEmfSpike \/ StatedTemperatureDrop
               \/ StatedMotionSurge \/ StatedEvpPattern))

\* C7 witness: every current value sits exactly on its threshold and no
\* anomaly was returned.
C7_Witness ==
    /\ detected
    /\ prev # NoReading
    /\ prev.emf = 50 /\ prev.motion = 1 /\ prev.audioLevel = -5000
    /\ current.emf = 280
    /\ prev.temperature - current.temperature = 180
    /\ current.motion = 55
    /\ current.audioLevel = -2200
    /\ anomaly = Null

\* C8: an emf_spike, motion_surge or evp_pattern anomaly has severity high
\* exactly when the current value exceeds the upper threshold (EMF > 6,
\* motion > 0.8, audio > -12), and medium otherwise.
C8_SeverityByUpperThreshold ==
    (detected /\ anomaly # Null) =>
        /\ anomaly.type = "emf_spike" =>
             anomaly.severity = (IF current.emf > 600 THEN "high" ELSE "medium")
        /\ anomaly.type = "motion_surge" =>
             anomaly.severity = (IF current.motion > 80 THEN "high" ELSE "medium")
        /\ anomaly.type = "evp_pattern" =>
             anomaly.severity =
                 (IF current.audioLevel > -1200 THEN "high" ELSE "medium")

\* C8 witness: EMF 0.5 -> 3.0 with nothing else changing returned emf_spike,
\* severity medium.
C8_Witness ==
    /\ detected
    /\ prev # NoReading
    /\ prev.emf = 50 /\ current.emf = 300
    /\ current.temperature = prev.temperature
    /\ current.motion = 1 /\ current.audioLevel = -5000
    /\ anomaly # Null
    /\ anomaly.type = "emf_spike"
    /\ anomaly.severity = "medium"

\* C9: a temperature_drop anomaly has severity high if and only if the drop
\* (previous - current temperature) is greater than 3.5, and medium otherwise.
C9_TemperatureSeverityByDrop ==
    (detected /\ anomaly # Null /\ anomaly.type = "temperature_drop") =>
        anomaly.severity =
            (IF prev.temperature - current.temperature > 350
             THEN "high" ELSE "medium")

(***************************************************************************)
(* Properties of simpleHash                                                *)
(***************************************************************************)
UpperHexDigits ==
    {"0", "1", "2", "3", "4", "5", "6", "7", "8", "9", "A", "B", "C", "D", "E", "F"}

\* C17: for every input string simpleHash returns exactly 8 characters, each
\* an uppercase hexadecimal digit, the accumulator being a signed 32-bit
\* integer after each character, also when it ends at the minimum value.
C17_EightUpperHexDigits ==
    /\ hashAcc[1] >= -32768 /\ hashAcc[1] <= 32767
    /\ hashAcc[2] >= 0 /\ hashAcc[2] <= 65535
    /\ hashOut # << >> =>
          /\ Len(hashOut) = 8
          /\ \A i \in 1..Len(hashOut) : hashOut[i] \in UpperHexDigits

\* C17 witness: the accumulator ended at -2147483648 and "80000000" was
\* returned.
C17_Witness ==
    /\ hashI = Len(hashInput)
    /\ hashAcc = << -32768, 0 >>
    /\ hashOut = << "8", "0", "0", "0", "0", "0", "0", "0" >>

(***************************************************************************)
(* Properties of detectAnomaly across runs                                 *)
(***************************************************************************)
\* The detection decision carried by a return value of detectAnomaly
Decision(a) ==
    IF a = Null THEN [ returned |-> FALSE ]
    ELSE [ returned |-> TRUE, type |-> a.type, severity |-> a.severity ]

\* C12: whether detectAnomaly returns an anomaly, and that anomaly's type and
\* severity, are the same in every run on the same pair of readings, whatever
\* the random draws and the clock values of the run.
C12_DecisionIgnoresDrawsAndClock ==
    detected =>
        \A now \in ClockVals, d \in DetectDraws :
            Decision(detectAnomaly(current, prev, now, d)) = Decision(anomaly)

\* C12 witness: an anomaly was returned, and a run on the same readings with
\* other draws and another clock value returns a different anomaly.
C12_Witness ==
    /\ detected
    /\ anomaly # Null
    /\ \E now \in ClockVals, d \in DetectDraws :
           LET other == detectAnomaly(current, prev, now, d)
           IN  /\ other.timestamp # anomaly.timestamp
               /\ other.entropy # anomaly.entropy
               /\ other.hotspot # anomaly.hotspot

(***************************************************************************)
(* Properties of the anomaly's hash                                        *)
(***************************************************************************)
\* C18: any two anomalies returned by detectAnomaly whose id, description
\* and timestamp fields are equal have equal hash fields.
C18_HashDigestOfOwnFields ==
    LET a == runAnomaly[1]
        b == runAnomaly[2]
    IN  ( /\ a # NotCalled /\ a # Null
          /\ b # NotCalled /\ b # Null
          /\ a.id = b.id
          /\ a.description = b.description
          /\ a.timestamp = b.timestamp )
        => a.hash = b.hash

(***************************************************************************)
(* Frame of buildQuantumState and detectAnomaly                            *)
(***************************************************************************)
\* C13: every call of buildQuantumState or detectAnomaly leaves the previous
\* state's bits array, both reading objects and the simulator variables
\* eventPhase and eventTimer as they were before the call.
C13_CallsChangeOnlyTheirResult ==
    [][ /\ ticks' # ticks => prevBits' = quantum.bits
        /\ current' = current
        /\ prev' = prev
        /\ eventPhase' = eventPhase
        /\ eventTimer' = eventTimer ]_vars

\* C13 witness: both calls have returned, each with a result that differs
\* from its input, while an event is running in the simulator.
C13_Witness ==
    /\ ticks = 1
    /\ quantum.bits # prevBits
    /\ prevBits = Window(WindowLen, "alternating")
    /\ detected
    /\ anomaly # Null
    /\ eventPhase > 0
    /\ eventTimer > 0

(***************************************************************************)
(* Properties of EchoScreen                                                *)
(***************************************************************************)
\* C14: in every state reached by save-key, clear-key and send actions the
\* browser's localStorage holds no API key and no client-side value (the
\* groqKey state, the command string handed to the bridge) contains one.
C14_KeyNeverOnClient ==
    /\ StoredKey(localKey) = << >>
    /\ groqKey = << >>
    /\ command # NoCommand => command.bearer = << >>

\* C15: the request a send builds is the system prompt, then the entries of
\* the k most recent messages the chat had before the send, in their order,
\* where k is the lesser of 18 and the number of those messages after the
\* greeting, then the new user message, once, as the last entry.
C15_RequestIsSystemRecentNew ==
    [][ sends' # sends =>
          LET k == Min(18, Len(messages) - 1)
          IN  /\ Len(payload') = k + 2
              /\ payload'[1] = SystemEntry
              /\ \A i \in 1..k :
                     payload'[1 + i] = HistoryEntry(messages[Len(messages) - k + i])
              /\ payload'[k + 2] = [ role |-> "user", content |-> [text |-> Trim(input)] ]
      ]_vars

\* C15 witness: a second send has built a request from a chat of more than
\* 18 earlier messages, which holds 18 of them.
C15_Witness ==
    /\ sends = 2
    /\ Len(messages) > 21
    /\ Len(payload) = 20
    /\ payload[2].content # messages[2].content

(***************************************************************************)
(* Properties of the Spirit Box sweep                                      *)
(***************************************************************************)
\* C16: the Spirit Box frequency is within 87.5-108.0 MHz in every reachable
\* state, and each tick either adds 0.1 MHz times a rate of 1, 2 or 3 or,
\* when that sum would exceed 108.0, sets the frequency to 87.5.
C16_FrequencyStaysInBand ==
    /\ [](sbFreq >= 875 /\ sbFreq <= 1080 /\ freqRef >= 875 /\ freqRef <= 1080)
    /\ [][ sbFreq' # sbFreq =>
             /\ sweepRateRef \in {1, 2, 3}
             /\ \/ sbFreq' = sbFreq + sweepRateRef /\ sbFreq' <= 1080
                \/ sbFreq' = 875 /\ sbFreq + sweepRateRef > 1080 ]_vars

\* C16 witness: the sweep has reached 108.0 MHz exactly, at rate 3, so that
\* the next tick wraps.
C16_Witness ==
    /\ sbSweeping
    /\ sbFreq = 1080
    /\ sweepRateRef = 3

\* C25: at most one chat request is in flight, and that exactly while
\* thinking is true; while thinking is true no step accepts a send, issues a
\* command or appends anything but the one answer of the request in flight.
C25_OneRequestInFlight ==
    /\ [](inFlight <= 1 /\ (thinking <=> inFlight = 1))
    /\ [][ thinking =>
             /\ sends' = sends
             /\ command' = command
             /\ payload' = payload
             /\ inFlight' <= inFlight
             /\ messages' # messages =>
                   /\ inFlight' = 0
                   /\ Len(messages') = Len(messages) + 1
                   /\ messages'[Len(messages')].role = "echo" ]_vars

\* C25 witness: a request is in flight while the input holds a text that
\* send would take and further sends are still explored.
C25_Witness ==
    /\ thinking
    /\ inFlight = 1
    /\ Trim(input) # << >>
    /\ sends < MaxSends

\* C26: after the greeting the chat alternates user message, echo message;
\* a user message is last exactly while its send has not completed, which is
\* exactly while thinking is true; every echo message is a reply text, the
\* signal-lost fallback, the interference error or the missing-key warning;
\* and the step of an accepted send appends the trimmed input as user
\* message right after the messages the chat had.
C26_UserThenOneEcho ==
    /\ [](/\ \A i \in 2..Len(messages) :
                messages[i].role = IF i % 2 = 0 THEN "user" ELSE "echo"
          /\ \A i \in 2..Len(messages) :
                messages[i].role = "echo" =>
                   \/ messages[i].content \in {SignalLost, Interference, NoKeyWarning}
                   \/ DOMAIN messages[i].content = {"text"}
          /\ thinking <=> Len(messages) % 2 = 0)
    /\ [][ sends' # sends =>
             /\ SubSeq(messages', 1, Len(messages)) = messages
             /\ messages'[Len(messages) + 1] =
                   [ role |-> "user", content |-> [text |-> Trim(input)] ] ]_vars

\* C26 witness: two sends have completed, the first never issued (missing-key
\* warning) and the second thrown (interference error).
C26_Witness ==
    /\ sends = 2
    /\ ~thinking
    /\ messages[Len(messages)].content = Interference
    /\ messages[Len(messages) - 2].content = NoKeyWarning

\* C27 as stated: a send with no key or an empty key stored issues no command
\* and changes nothing but the messages (user message, then the missing-key
\* warning), thinking being false after it.
C27_NoKeyOnlyAppendsWarning ==
    [][ sends' # sends /\ StoredKey(localKey) = << >> =>
          /\ command' = command
          /\ inFlight' = inFlight
          /\ thinking' = FALSE
          /\ messages' = messages
                \o << [ role |-> "user", content |-> [text |-> Trim(input)] ],
                      [ role |-> "echo", content |-> NoKeyWarning ] >>
          /\ UNCHANGED <<input, groqKey, showKeyInput, keyDraft, localKey>> ]_vars

\* C27 amended: a send with no key or an empty key stored issues no command;
\* it appends the user message and the missing-key warning, leaves thinking
\* false and also clears the chat input.
C27_NoKeyAppendsWarningClearsInput ==
    [][ sends' # sends /\ StoredKey(localKey) = << >> =>
          /\ command' = command
          /\ inFlight' = inFlight
          /\ thinking' = FALSE
          /\ messages' = messages
                \o << [ role |-> "user", content |-> [text |-> Trim(input)] ],
                      [ role |-> "echo", content |-> NoKeyWarning ] >>
          /\ input' = << >>
          /\ UNCHANGED <<groqKey, showKeyInput, keyDraft, localKey>> ]_vars

\* C27 witness: a send was made with an empty key stored, after a request
\* with a key had been issued: the warning is last, nothing is in flight.
C27_Witness ==
    /\ localKey = Item(<< >>)
    /\ sends = 2
    /\ command # NoCommand
    /\ messages[Len(messages)].content = NoKeyWarning
    /\ ~thinking
    /\ inFlight = 0

(***************************************************************************)
(* simulateSensors: the event timer and the event phase                    *)
(***************************************************************************)
MaxSimCalls == 5

EVENT_INTERVAL_MS == 40000

EventStep_NoReset(phase, timer, elapsed, draw) ==
    LET t == timer + elapsed
        begins == t > EVENT_INTERVAL_MS /\ draw < 350
        p == IF begins THEN 9000 ELSE phase
    IN  [ eventTimer |-> IF t > EVENT_INTERVAL_MS /\ ~begins
                           THEN EVENT_INTERVAL_MS - 12000 ELSE t,
          eventPhase |-> IF p > 0 THEN p - elapsed ELSE p,
          begins |-> begins ]

\* The first lines of simulateSensors: eventTimer += elapsed; past the
\* interval an event begins when Math.random() < 0.35 (draw, in thousandths)
\* and the timer is put back to 28000 otherwise; a positive eventPhase is
\* decreased by elapsed, in the call that set it too
EventStep(phase, timer, elapsed, draw) ==
    LET t == timer + elapsed
        begins == t > EVENT_INTERVAL_MS /\ draw < 350
        p == IF begins THEN 9000 ELSE phase
    IN  [ eventTimer |-> IF t > EVENT_INTERVAL_MS
                           THEN (IF begins THEN 0 ELSE EVENT_INTERVAL_MS - 12000)
                           ELSE t,
          eventPhase |-> IF p > 0 THEN p - elapsed ELSE p,
          begins |-> begins ]

InitSimulate ==
    /\ EventIdle
    /\ QuantumIdle
    /\ DetectorIdle
    /\ DeviationIdle
    /\ HashIdle
    /\ DigestIdle
    /\ EchoIdle
    /\ SpiritIdle
    /\ AppIdle

\* One simulateSensors call, with its argument elapsed (milliseconds) and the
\* Math.random() draw of the event test
simulateSensors ==
    /\ simRun.calls < MaxSimCalls
    /\ \E elapsed \in {-500, 0, 500, 12500, 41000}, draw \in RandVals :
          LET r == EventStep(eventPhase, eventTimer, elapsed, draw)
          IN  /\ eventTimer' = r.eventTimer
              /\ eventPhase' = r.eventPhase
              /\ simRun' = [ calls |-> simRun.calls + 1,
                             elapsed |-> elapsed,
                             since |-> IF r.begins THEN 0 ELSE simRun.since + elapsed,
                             starts |-> simRun.starts + (IF r.begins THEN 1 ELSE 0),
                             negative |-> simRun.negative \/ elapsed < 0 ]
    /\ UNCHANGED <<quantumVars, detectVars, deviationVars, hashVars, digestVars,
                   echoVars, spiritVars, appVars>>

SpecSimulate == InitSimulate /\ [][simulateSensors]_vars

\* C28: an event begins only in a call that brings eventTimer above 40000,
\* that call leaves the timer at 0, and the elapsed time summed since the
\* previous start (or since load) is then above 40000; as long as no call
\* had a negative elapsed, eventTimer is within 0..40000 and eventPhase is
\* at most 9000 after every call.
C28_EventsAtLeastAnIntervalApart ==
    /\ [](~simRun.negative =>
            /\ eventTimer >= 0
            /\ eventTimer <= EVENT_INTERVAL_MS
            /\ eventPhase <= 9000)
    /\ [][ simRun'.starts # simRun.starts =>
             /\ eventTimer + simRun'.elapsed > EVENT_INTERVAL_MS
             /\ simRun.since + simRun'.elapsed > EVENT_INTERVAL_MS
             /\ eventTimer' = 0
             /\ eventPhase' = 9000 - simRun'.elapsed ]_vars

\* C28 witness: a second event has begun, after a failed attempt had put the
\* timer back to 28000, with no negative elapsed in any call.
C28_Witness ==
    /\ simRun.starts = 2
    /\ ~simRun.negative
    /\ simRun.since = 0
    /\ simRun.elapsed = 12500
    /\ eventTimer = 0

(***************************************************************************)
(* generateQuantumEntropy                                                  *)
(***************************************************************************)
\* A 32-bit word is the pair of its upper and lower 16 bits
RECURSIVE XorBits(_, _, _)
\* a ^ b on the low n bits
XorBits(a, b, n) ==
    IF n = 0 THEN 0
    ELSE (((a % 2) + (b % 2)) % 2) + 2 * XorBits(a \div 2, b \div 2, n - 1)

\* buf.reduce((a, b) => a ^ b, 0) / 0xffffffff: ^ works on 32-bit words and
\* yields a signed 32-bit integer, so a set top bit makes the fold negative.
\* The result is [num |-> n], standing for n / 0xffffffff.
generateQuantumEntropy(buf) ==
    LET hi == XorBits(XorBits(buf[1][1], buf[2][1], 16),
                      XorBits(buf[3][1], buf[4][1], 16), 16)
        lo == XorBits(XorBits(buf[1][2], buf[2][2], 16),
                      XorBits(buf[3][2], buf[4][2], 16), 16)
    IN  [ num |-> (IF hi >= 32768 THEN hi - 65536 ELSE hi) * 65536 + lo ]

\* crypto.getRandomValues(buf): each word is any 32-bit value; the upper half
\* ranges over both values of the top bit
InitEntropy ==
    /\ entropyBuf \in [ 1..4 -> { <<0, 0>>, <<0, 1>>, <<32767, 65535>>, <<32768, 0>>,
                                  <<65535, 65535>> } ]
    /\ entropyOut = NotCalled
    /\ stage = "landing"
    /\ screen = "dashboard"
    /\ scanActive = TRUE
    /\ loadingDone = "none"
    /\ intervals = 0
    /\ readings = << >>
    /\ anomalies = << >>
    /\ qrngBaseline = 0
    /\ streamTicks = 0
    /\ QuantumIdle
    /\ DetectorIdle
    /\ DeviationIdle
    /\ HashIdle
    /\ DigestIdle
    /\ EventIdle
    /\ EchoIdle
    /\ SpiritIdle

\* The return of a generateQuantumEntropy call
EntropyReturn ==
    /\ entropyOut = NotCalled
    /\ entropyOut' = generateQuantumEntropy(entropyBuf)
    /\ UNCHANGED <<entropyBuf, stage, screen, scanActive, loadingDone, intervals, readings,
                   anomalies, qrngBaseline, streamTicks>>
    /\ UNCHANGED <<quantumVars, detectVars, deviationVars, hashVars, digestVars, eventVars,
                   echoVars, spiritVars>>

SpecEntropy == InitEntropy /\ [][EntropyReturn]_vars

\* C24: generateQuantumEntropy returns a value of at least 0 and at most 1,
\* that is a numerator n of n / 0xffffffff with 0 <= n <= 0xffffffff, for
\* every content of the four words.
C24_EntropyInUnitRange ==
    entropyOut # NotCalled =>
        /\ entropyOut.num >= 0
        /\ entropyOut.num \div 65536 <= 65535

(***************************************************************************)
(* App: the stages and the sensor stream (useSensorStream)                 *)
(***************************************************************************)
MaxStreamTicks == 2

AnomaliesKept == 49

ReadingsKept == 60

restOfApp == <<quantumVars, detectVars, deviationVars, hashVars, digestVars, eventVars,
               echoVars, spiritVars, entropyBuf, entropyOut>>

\* Math.abs(a * b - c * d) * 2.828 over the last four values, 0 for fewer
\* than four.  The values are in ten-thousandths, the result in units of 1e-8.
computeSValue(values) ==
    IF Len(values) < 4 THEN 0
    ELSE LET n == Len(values)
             x == values[n - 3] * values[n - 2] - values[n - 1] * values[n]
             m == IF x < 0 THEN -x ELSE x
         IN  (m \div 1000) * 2828 + ((m % 1000) * 2828) \div 1000

\* Math.abs(value - baseline) / (baseline + 0.001), kept as the fraction
\* num / den of two numbers of millionths
compareToQRNG(value, baseline) ==
    [ num |-> IF value < baseline THEN baseline - value ELSE value - baseline,
      den |-> baseline + 1000 ]

\* deviation > th / 1000, for the quotient of JavaScript's division: a zero
\* divisor gives Infinity (or NaN for 0 / 0), a negative one a value <= 0
DeviationAbove(deviation, th) ==
    IF deviation.den > 0 THEN deviation.num * 1000 > th * deviation.den
    ELSE deviation.den = 0 /\ deviation.num > 0

StreamReading_Tenfold(sin, r, now) ==
    [ emf |-> 20000 + sin * 1500 + (r - 500),
      temperature |-> 680000 + sin * 30000 + (r - 500) * 5,
      pressure |-> 10130000 + sin * 50000 + (r - 500) * 20,
      motion |-> Max(0, sin * 3000 + (r - 500) * 2),
      timestamp |-> now ]

\* The reading of a tick, in ten-thousandths: sin is the value of the sine
\* of the clock (the four sines are taken equal) and r the Math.random()
\* draw in thousandths (the four draws are taken equal)
StreamReading(sin, r, now) ==
    [ emf |-> 2000 + sin * 1500 + (r - 500),
      temperature |-> 680000 + sin * 30000 + (r - 500) * 5,
      pressure |-> 10130000 + sin * 50000 + (r - 500) * 20,
      motion |-> Max(0, sin * 3000 + (r - 500) * 2),
      timestamp |-> now ]

InsertAnomaly_Slice50(a, list) == << a >> \o SubSeq(list, 1, Min(AnomaliesKept + 1, Len(list)))

\* [a, ...prev.slice(0, 49)]
InsertAnomaly(a, list) == << a >> \o SubSeq(list, 1, Min(AnomaliesKept, Len(list)))

AfterEffect_NoCleanup(was, active, n) == n + (IF active THEN 1 ELSE 0)

\* The number of registered tick intervals after the effect of
\* useSensorStream has been re-run for a changed `active`: the cleanup of the
\* previous run clears the interval that run registered, the new run
\* registers one when active
AfterEffect(was, active, n) ==
    (n - (IF was THEN 1 ELSE 0)) + (IF active THEN 1 ELSE 0)

\* The i-th entry from the front of a list of n earlier anomalies, ids being
\* the order of creation (crypto.randomUUID() is a fresh id)
EarlierAnomalies(n) ==
    [ i \in 1..n |-> [ id |-> n + 1 - i, type |-> "emf", severity |-> "low",
                      timestamp |-> 0,
                      deviationScore |-> [num |-> 250000, den |-> 501000] ] ]

\* The app as loaded, or in the app stage with the scanner on after earlier
\* ticks have filled the lists
InitStream ==
    /\ \/ /\ stage = "landing"
          /\ screen = "dashboard"
          /\ loadingDone = "none"
          /\ intervals = 0
          /\ readings = << >>
          /\ anomalies = << >>
          /\ qrngBaseline \in {-500000, 250000}
       \/ /\ stage = "app"
          /\ screen = "dashboard"
          /\ loadingDone = "fired"
          /\ intervals = 1
          /\ \E n \in {3, ReadingsKept} :
                readings = [ i \in 1..n |-> StreamReading(-1, 0, 0) ]
          /\ \E n \in {AnomaliesKept, AnomaliesKept + 1} : anomalies = EarlierAnomalies(n)
          /\ qrngBaseline = 250000
    /\ scanActive = TRUE
    /\ streamTicks = 0
    /\ entropyBuf = << >>
    /\ entropyOut = NotCalled
    /\ QuantumIdle
    /\ DetectorIdle
    /\ DeviationIdle
    /\ HashIdle
    /\ DigestIdle
    /\ EventIdle
    /\ EchoIdle
    /\ SpiritIdle

Begin_SkipsLoading ==
    /\ stage = "landing"
    /\ stage' = "app"
    /\ loadingDone' = "none"
    /\ intervals' = AfterEffect(FALSE, scanActive, intervals)
    /\ UNCHANGED <<screen, scanActive, readings, anomalies, qrngBaseline,
                   streamTicks, restOfApp>>

\* BEGIN INVESTIGATION: setStage("loading"); the LoadingScreen mounts and its
\* effect sets the `done` timeout
Begin ==
    /\ stage = "landing"
    /\ stage' = "loading"
    /\ loadingDone' = "armed"
    /\ UNCHANGED <<screen, scanActive, intervals, readings, anomalies, qrngBaseline,
                   streamTicks, restOfApp>>

\* The `done` timeout of the LoadingScreen fires: setStage("app"); the
\* stream becomes active when the scanner is on and its effect runs
LoadingComplete ==
    /\ stage = "loading"
    /\ loadingDone = "armed"
    /\ stage' = "app"
    /\ loadingDone' = "fired"
    /\ intervals' = AfterEffect(FALSE, scanActive, intervals)
    /\ UNCHANGED <<screen, scanActive, readings, anomalies, qrngBaseline,
                   streamTicks, restOfApp>>

\* The NavBar, between the dashboard and the scanner
Navigate ==
    /\ stage = "app"
    /\ \E to \in {"dashboard", "scanner"} :
          /\ to # screen
          /\ screen' = to
    /\ UNCHANGED <<stage, scanActive, loadingDone, intervals, readings, anomalies,
                   qrngBaseline, streamTicks, restOfApp>>

\* The scanner's toggle: setScanActive(v => !v), and the effect of
\* useSensorStream re-run for the changed `active`
ToggleScan ==
    /\ stage = "app"
    /\ screen = "scanner"
    /\ scanActive' = ~scanActive
    /\ intervals' = AfterEffect(scanActive, ~scanActive, intervals)
    /\ UNCHANGED <<stage, screen, loadingDone, readings, anomalies, qrngBaseline,
                   streamTicks, restOfApp>>

\* One run of the interval callback.  q is the value generateQuantumEntropy
\* returned, in millionths (-0.5, 0.25 and 0.4); gate, pickType and
\* pickSeverity are the three Math.random() draws of the anomaly branch.
\* The description of the anomaly, a text made of its type, severity and
\* deviation, is not kept.
StreamTick ==
    /\ intervals > 0
    /\ streamTicks < MaxStreamTicks
    /\ \E q \in {-500000, 250000, 400000}, sin \in {-1, 1}, gate \in RandVals,
          picks \in { <<0, 0>>, <<999, 999>> } :
          LET deviation == compareToQRNG(q, qrngBaseline)
              types == << "emf", "audio", "thermal", "motion", "quantum" >>
              sevs == << "low", "medium", "high", "critical" >>
              t == types[(picks[1] * 5) \div 1000 + 1]
              k == IF DeviationAbove(deviation, 800) THEN 4
                   ELSE IF DeviationAbove(deviation, 600) THEN 3 ELSE 2
              sv == sevs[(picks[2] * k) \div 1000 + 1]
              fresh == IF anomalies = << >> THEN 1 ELSE anomalies[1].id + 1
          IN  /\ readings' = Append(
                     SubSeq(readings, Max(1, Len(readings) - ReadingsKept + 1), Len(readings)),
                     StreamReading(sin, gate, streamTicks + 1))
              /\ anomalies' =
                     IF DeviationAbove(deviation, 400) /\ gate > 700
                       THEN InsertAnomaly([ id |-> fresh, type |-> t, severity |-> sv,
                                            timestamp |-> streamTicks + 1,
                                            deviationScore |-> deviation ], anomalies)
                       ELSE anomalies
              /\ qrngBaseline' = (qrngBaseline * 99 + q) \div 100
    /\ streamTicks' = streamTicks + 1
    /\ UNCHANGED <<stage, screen, scanActive, loadingDone, intervals, restOfApp>>

NextStream ==
    \/ Begin
    \/ LoadingComplete
    \/ Navigate
    \/ ToggleScan
    \/ StreamTick

SpecStream == InitStream /\ [][NextStream]_vars

\* C21: the anomaly list never holds more than 50 entries and is ordered
\* newest first (ids strictly decreasing from the front); a step that changes
\* the list puts one new anomaly, newer than all others, at the front and
\* keeps behind it the previous list in its order, without its last entry
\* when it already held 50.
C21_NewestFirstAtMostFifty ==
    /\ [](/\ Len(anomalies) <= 50
          /\ \A i \in 1..(Len(anomalies) - 1) : anomalies[i].id > anomalies[i + 1].id)
    /\ [][ anomalies' # anomalies =>
             /\ \A i \in 1..Len(anomalies) : anomalies'[1].id > anomalies[i].id
             /\ Tail(anomalies') =
                   IF Len(anomalies) = 50 THEN SubSeq(anomalies, 1, 49) ELSE anomalies ]_vars

\* C21 witness: two anomalies were inserted into a list of 50, the two oldest
\* entries are gone.
C21_Witness ==
    /\ Len(anomalies) = 50
    /\ anomalies[1].id = 52
    /\ anomalies[50].id = 3

\* C22: at most one tick interval is registered, and one is registered
\* exactly while the stream is active (stage app and scanner on); in a step
\* from a state where the stream is inactive no tick runs: the readings, the
\* anomalies and the QRNG baseline are unchanged.
C22_InactiveStreamIsStill ==
    /\ [](/\ intervals <= 1
          /\ intervals = 1 <=> (stage = "app" /\ scanActive))
    /\ [][ ~(stage = "app" /\ scanActive) =>
             UNCHANGED <<readings, anomalies, qrngBaseline, streamTicks>> ]_vars

\* C22 witness: the scanner was stopped after a tick, started again, ticked
\* again and is stopped now, no interval registered.
C22_Witness ==
    /\ stage = "app"
    /\ ~scanActive
    /\ intervals = 0
    /\ streamTicks = 2
    /\ Len(readings) = 2

\* The S-value the screens compute: computeSValue(readings.map(r => r.emf))
StreamSValue == computeSValue([ i \in 1..Len(readings) |-> readings[i].emf ])

\* C23: the S-value of the stream's readings is 0 while there are fewer than
\* four readings and is never above 2.828 (in units of 1e-8).
C23_SValueWithinTsirelson ==
    /\ Len(readings) < 4 => StreamSValue = 0
    /\ StreamSValue <= 282800000

\* C23 witness: the last four EMF readings give the largest S-value the
\* stream's values allow, 0.3999 * 0.3999 * 2.828.
C23_Witness ==
    /\ Len(readings) >= 4
    /\ StreamSValue = computeSValue(<< 0, 0, 3999, 3999 >>)
    /\ StreamSValue > 45000000

\* C29: the stage changes only from landing to loading and from loading to
\* app; the completion of the loading screen fires only in the loading
\* stage, once, and is what moves the stage to app; no tick runs while the
\* stage is not app.
C29_StagesOnlyForward ==
    /\ [][ stage' # stage =>
             \/ stage = "landing" /\ stage' = "loading"
             \/ stage = "loading" /\ stage' = "app" ]_vars
    /\ [][ loadingDone' # loadingDone =>
             \/ stage = "landing" /\ stage' = "loading" /\ loadingDone = "none"
                  /\ loadingDone' = "armed"
             \/ stage = "loading" /\ stage' = "app" /\ loadingDone = "armed"
                  /\ loadingDone' = "fired" ]_vars
    /\ [](stage = "app" <=> loadingDone = "fired")
    /\ [][ stage # "app" =>
             UNCHANGED <<readings, anomalies, qrngBaseline, streamTicks>> ]_vars
    /\ [](stage # "app" => streamTicks = 0 /\ readings = << >> /\ intervals = 0)

\* C29 witness: the app went from the landing stage through loading to the
\* app stage (the lists started empty) and has ticked.
C29_Witness ==
    /\ stage = "app"
    /\ loadingDone = "fired"
    /\ streamTicks = 2
    /\ Len(readings) = 2
    /\ scanActive

\* C30: the number of open AudioContexts is 1 while sweeping is on and the
\* Spirit Box screen is mounted, and 0 otherwise: never two, and none left
\* open once the sweep is stopped or the screen is left.
C30_OneContextWhileSweepingMounted ==
    openContexts = IF sbSweeping /\ Mounted THEN 1 ELSE 0

\* C30 witness: the screen was left during a sweep that had logged a contact
\* and moved the dial; the sweep is still on in the App and no context is
\* open.
C30_Witness ==
    /\ sbSweeping
    /\ ~Mounted
    /\ contactCount > 0
    /\ sbFreq > 875
    /\ openContexts = 0

====
